---- MODULE Spec2Model ----
(***************************************************************************)
(* A model of tags2groups.py: the pull run (discover tags, write the       *)
(* mapping file) and the push run (read the mapping file, resolve hosts by *)
(* tag, merge them into groups, optionally strip the tags).                *)
(*                                                                         *)
(* The program is sequential.  One action is one remote call together with *)
(* the local code that leads to it and follows it, up to the next remote   *)
(* call: remote calls are the only places where the run can fail.  Reading *)
(* the mapping file is an action of its own.                               *)
(*                                                                         *)
(* Text is modelled as a sequence of tokens: '#', '|', ',', a blank and a  *)
(* line break are tokens of their own, every other token is a run of       *)
(* characters none of which the program looks at.                          *)
(***************************************************************************)
EXTENDS Integers, Sequences, FiniteSets, TLC

VARIABLES
    args,           \* parsed command line: pull, push, poptag, active
    file,           \* content of tags_groups.txt, a sequence of lines
    file_writes,    \* number of times the run has written tags_groups.txt
    host_tags,      \* remote: host id -> list of tags
    host_active,    \* remote: host id -> has active detections
    remote_groups,  \* remote: list of groups, the id of a group is its index
    pc,             \* position of the run
    exc,            \* the uncaught exception that ended the run, "" if none
    group_dict,     \* process_hosts: the mapping, in dict (insertion) order
    idx,            \* process_hosts: index of the entry being processed
    url,            \* process_hosts: cognito_tagged_host_url of the entry
    tag_list,       \* process_hosts: tag_list of the entry
    ids,            \* process_hosts: ids of the entry
    hidx,           \* remove_tags: index in hostid_list
    tags,           \* remove_tags: the tags read for the current host
    group_results,  \* add_host_to_group: the result of the name search
    gidx,           \* add_host_to_group: index of item in group_results
    calls,          \* the remote calls the run has issued, in order
    faults,         \* number of remote calls that have failed so far
    run,            \* number of the run, 1 for the first
    start_tags,     \* host_tags at the start of the run
    start_groups,   \* remote_groups at the start of the run
    after_first,    \* remote_groups at the end of the first run
    first           \* what the first run met, where a specification records it

remote == <<host_tags, host_active, remote_groups>>
locals == <<group_dict, idx, url, tag_list, ids, hidx, tags, group_results, gidx>>
history == <<run, start_tags, start_groups, after_first, first>>
vars == <<args, file, file_writes, remote, pc, exc, locals, calls, faults, history>>

----------------------------------------------------------------------------
(* Bounds *)

MaxHosts == 3
MaxFaults == 1
MaxRuns == 2

Hosts == 1..MaxHosts

----------------------------------------------------------------------------
(* Program constants *)

cognito_url == "https://vectra.local"
api == "/api/v2/"
page_size == "5000"
vectra_tag_uri == "/api/v2/tagging/host/"

----------------------------------------------------------------------------
(* Sequences and text *)

Range(s) == {s[i] : i \in DOMAIN s}

NoDup(s) == \A i, j \in DOMAIN s : s[i] = s[j] => i = j

\* The list of a set of host ids, as list(set(...)) gives it for small
\* integers: in increasing order.
RECURSIVE ListOfSet(_)
ListOfSet(S) ==
    IF S = {} THEN <<>>
    ELSE LET m == CHOOSE x \in S : \A y \in S : x <= y
         IN <<m>> \o ListOfSet(S \ {m})

\* The text of a sequence of tokens.
RECURSIVE Str(_)
Str(s) == IF s = <<>> THEN "" ELSE Head(s) \o Str(Tail(s))

\* The decimal text of a host or group id.
str(n) == ToString(n)

WhiteSpace == {" ", "\n"}

RECURSIVE lstrip(_)
lstrip(s) ==
    IF s # <<>> /\ Head(s) \in WhiteSpace THEN lstrip(Tail(s)) ELSE s

RECURSIVE rstrip(_)
rstrip(s) ==
    IF s # <<>> /\ s[Len(s)] \in WhiteSpace
    THEN rstrip(SubSeq(s, 1, Len(s) - 1))
    ELSE s

strip(s) == rstrip(lstrip(s))

\* str.split(sep): the pieces between the occurrences of sep, one more
\* piece than there are occurrences.
RECURSIVE split(_, _)
split(s, sep) ==
    IF \A i \in DOMAIN s : s[i] # sep THEN <<s>>
    ELSE LET i == CHOOSE k \in DOMAIN s :
                      s[k] = sep /\ \A j \in 1..(k - 1) : s[j] # sep
         IN <<SubSeq(s, 1, i - 1)>> \o split(SubSeq(s, i + 1, Len(s)), sep)

\* The tokens of the text of a tag: the tags of the model that hold a
\* character the mapping file gives a meaning to, token by token; any other
\* tag is one token.
Tokens(t) ==
    CASE t = "a,b" -> <<"a", ",", "b">>
      [] t = "#x"  -> <<"#", "x">>
      [] t = "x|y" -> <<"x", "|", "y">>
      [] OTHER     -> <<t>>

\* re.search('^[#].*', s): the text starts with '#'.
comment_match(s) == s # <<>> /\ Head(s) = "#"

----------------------------------------------------------------------------
(* The mapping file *)

\* The comment lines gen_tag_file writes before the mappings.
FileHeader ==
    << <<"#", " ", "Separate multiple tags relating to one group with a '", ",",
         "' no spaces between tags.", "\n">>,
       <<"#", " ", "Group illegal characters: ! @ % & * ) (", " ", "\n">>,
       <<"#", " ", "Separate the tag(s) and relating group with a '", "|",
         "' with no spaces", "\n">>,
       <<"#", " ", "Tag and group relation format examples:", "\n">>,
       <<"#", "tag123", "|", "group123", "\n">>,
       <<"#", "Role1", ",", "Role two:Webserver", "|", "group1", "\n">>,
       <<"#", "\n">>,
       <<"#", " ", "Tags and suggested group names:", "\n">> >>

\* gen_tag_file: the header, then one line "tag|tag" per tag.
gen_tag_file(tag_seq) ==
    FileHeader \o [i \in DOMAIN tag_seq |->
                      Tokens(tag_seq[i]) \o <<"|">> \o Tokens(tag_seq[i]) \o <<"\n">>]

\* group_tag[group] = value: a key the dict holds keeps its place, a new key
\* goes to the end.
DictSet(d, k, v) ==
    IF \E i \in DOMAIN d : d[i].group = k
    THEN [i \in DOMAIN d |-> IF d[i].group = k THEN [group |-> k, tags |-> v] ELSE d[i]]
    ELSE Append(d, [group |-> k, tags |-> v])

\* A reader that passes over a line it cannot unpack.
RECURSIVE ReadLinesSkip(_, _, _)
ReadLinesSkip(lines, i, d) ==
    IF i > Len(lines) THEN [ok |-> TRUE, group_tag |-> d]
    ELSE LET stripped == strip(lines[i])
             pieces == split(stripped, "|")
         IN IF comment_match(stripped) \/ Len(pieces) # 2
            THEN ReadLinesSkip(lines, i + 1, d)
            ELSE LET tag_split == split(pieces[1], ",")
                 IN ReadLinesSkip(lines, i + 1,
                        DictSet(d, Str(pieces[2]),
                                [k \in DOMAIN tag_split |-> Str(tag_split[k])]))

\* The body of the loop of process_tag_file from line i on, group_tag being
\* d: the dict, or the ValueError of the first line that does not unpack
\* into two pieces.
RECURSIVE ReadLines(_, _, _)
ReadLines(lines, i, d) ==
    IF i > Len(lines) THEN [ok |-> TRUE, group_tag |-> d]
    ELSE LET stripped == strip(lines[i])
             pieces == split(stripped, "|")
         IN IF comment_match(stripped) THEN ReadLines(lines, i + 1, d)
            ELSE IF Len(pieces) # 2 THEN [ok |-> FALSE, group_tag |-> <<>>]
            ELSE LET tag == pieces[1]
                     group == pieces[2]
                     tag_split == split(tag, ",")
                 IN ReadLines(lines, i + 1,
                        DictSet(d, Str(group),
                                [k \in DOMAIN tag_split |-> Str(tag_split[k])]))

process_tag_file(lines) == ReadLines(lines, 1, <<>>)

----------------------------------------------------------------------------
(* The search query of process_hosts *)

\* The while loop of the many-tags branch, count being c and the url built
\* so far u.
RECURSIVE OrChain(_, _, _)
OrChain(tag, c, u) ==
    LET list_len == Len(tag) - 1
        t == tag[c + 1]
    IN IF ~(c <= list_len) THEN u
       ELSE IF c = list_len THEN OrChain(tag, c + 1, u \o " OR \"" \o t \o "\")")
       ELSE IF c = 0 THEN OrChain(tag, c + 1, u \o "\"" \o t \o "\"")
       ELSE OrChain(tag, c + 1, u \o " OR \"" \o t \o "\"")

\* The url built by the loop alone, a list of one tag taking no way of its
\* own.
tagged_host_url_chain(tag, active) ==
    LET base == cognito_url \o api \o "search/hosts/?page_size=" \o page_size
                    \o "&field=id&query_string="
        u1 == IF active THEN base \o "host.state:\"active\" AND " ELSE base
    IN OrChain(tag, 0, u1 \o "(host.tags:")

\* cognito_tagged_host_url as process_hosts builds it for the tag list of
\* one entry.
tagged_host_url(tag, active) ==
    LET base == cognito_url \o api \o "search/hosts/?page_size=" \o page_size
                    \o "&field=id&query_string="
        u1 == IF active THEN base \o "host.state:\"active\" AND " ELSE base
    IN IF Len(tag) = 1 THEN u1 \o "host.tags:\"" \o tag[1] \o "\""
       ELSE OrChain(tag, 0, u1 \o "(host.tags:")

\* tag_list as process_hosts fills it: one append per tag, in order.
RECURSIVE AppendAll(_, _, _)
AppendAll(tag, c, acc) ==
    IF c > Len(tag) THEN acc ELSE AppendAll(tag, c + 1, Append(acc, tag[c]))

build_tag_list(tag) ==
    IF Len(tag) = 1 THEN <<tag[1]>> ELSE AppendAll(tag, 1, <<>>)

----------------------------------------------------------------------------
(* remove_tags and add_host_to_group: the local computations *)

\* list.remove(x): the list without the first occurrence of x; the list
\* itself when x does not occur (the ValueError is caught).
list_remove(l, x) ==
    IF \A i \in DOMAIN l : l[i] # x THEN l
    ELSE LET i == CHOOSE k \in DOMAIN l : l[k] = x /\ \A j \in 1..(k - 1) : l[j] # x
         IN SubSeq(l, 1, i - 1) \o SubSeq(l, i + 1, Len(l))

\* The inner loop of remove_tags from index i of remove_list on.
RECURSIVE RemoveAll(_, _, _)
RemoveAll(l, remove_list, i) ==
    IF i > Len(remove_list) THEN l
    ELSE RemoveAll(list_remove(l, remove_list[i]), remove_list, i + 1)

\* remove_tags leaving its inner loop at the first tag the host does not
\* carry.
RECURSIVE RemoveUntilAbsent(_, _, _)
RemoveUntilAbsent(l, remove_list, i) ==
    IF i > Len(remove_list) \/ remove_list[i] \notin Range(l) THEN l
    ELSE RemoveUntilAbsent(list_remove(l, remove_list[i]), remove_list, i + 1)

stripped_tags_break(l, remove_list) == RemoveUntilAbsent(l, remove_list, 1)

stripped_tags(l, remove_list) == RemoveAll(l, remove_list, 1)

\* The update sending the resolved hosts alone.
host_id_list_replace(pre_exist_members, host_ids) == ListOfSet(Range(host_ids))

\* host_id_list = list(set(pre_exist_members + host_ids))
host_id_list(pre_exist_members, host_ids) ==
    ListOfSet(Range(pre_exist_members \o host_ids))

----------------------------------------------------------------------------
(* The remote directory, as the program's calls see it *)

\* The order of sorted() on the tags of the model.
TagUniverse == <<"#x", "a", "a,b", "b", "c", "x|y">>

\* The name search is exact or fuzzy: a group is returned for its own name
\* and for the names listed against it here.
FuzzyPairs == { <<"G", "Gx">>, <<"G", "xG">> }

NameMatches(query, name) == name = query \/ <<query, name>> \in FuzzyPairs

\* GET search/hosts with field=id: the ids of the hosts that carry one of
\* the tags, active ones only when the query says so.
find_host_ids(tag, active) ==
    ListOfSet({h \in Hosts : /\ active => host_active[h]
                             /\ Range(host_tags[h]) \cap Range(tag) # {}})

\* poll_vectra_tags over GET search/hosts with field=tags and host.tags:*:
\* sorted(set(...)) of the tags of the hosts that carry a tag.
poll_vectra_tags(active) ==
    LET found == UNION {Range(host_tags[h]) :
                          h \in {k \in Hosts : active => host_active[k]}}
    IN SelectSeq(TagUniverse, LAMBDA t : t \in found)

\* GET groups/?name=: the groups whose name matches, with id and members.
find_groups(name) ==
    LET item(i) == [id |-> i, name |-> remote_groups[i].name,
                    members |-> remote_groups[i].members]
        all == [i \in DOMAIN remote_groups |-> item(i)]
    IN SelectSeq(all, LAMBDA g : NameMatches(name, g.name))

\* What a remote call can come to: an answer, an error response, or no
\* connection.
Outcomes == IF faults < MaxFaults THEN {"ok", "err", "conn"} ELSE {"ok"}

\* A remote call: the request, how it came out, and the data of the answer.
Call(op, id, u, body, o, result) ==
    [op |-> op, entry |-> idx, id |-> id, url |-> u, body |-> body,
     outcome |-> o, result |-> IF o = "ok" THEN result ELSE <<>>]

Issue(c) ==
    /\ calls' = Append(calls, c)
    /\ faults' = IF c.outcome = "ok" THEN faults ELSE faults + 1

Crash(e) ==
    /\ pc' = "crashed"
    /\ exc' = e

----------------------------------------------------------------------------
(* The initial states: a command line, a mapping file, a remote directory *)

Line(tokens) == tokens \o <<"\n">>

InputFiles ==
    { FileHeader \o <<Line(<<"a", "|", "G">>)>>,
      <<Line(<<"a", "|", "G">>), Line(<<"c", ",", "b", ",", "a", "|", "H">>)>>,
      <<Line(<<"a", ",", "b", "|", "G">>)>>,
      <<Line(<<"a", "|", "G">>), Line(<<"b">>)>>,
      <<Line(<<"a", "|", "G">>), Line(<<>>)>>,
      <<Line(<<"b", "|", "G", "|", "H">>)>>,
      FileHeader,
      <<Line(<<"a", "|", "G">>), Line(<<" ", "b", "|", "G", " ">>)>> }

HostTagLists == { <<>>, <<"a">>, <<"b", "a">> }

Group(name, members) == [name |-> name, members |-> members]

InitialGroups ==
    { <<>>,
      <<Group("G", <<1, 2>>)>>,
      <<Group("Gx", <<1>>)>>,
      <<Group("Gx", <<MaxHosts>>), Group("G", <<2, 1>>)>> }

\* Every host has active detections, or every host but the last.
InitialActive ==
    { [h \in Hosts |-> TRUE], [h \in Hosts |-> h # MaxHosts] }

NoLocals ==
    /\ group_dict = <<>>
    /\ idx = 0
    /\ url = ""
    /\ tag_list = <<>>
    /\ ids = <<>>
    /\ hidx = 0
    /\ tags = <<>>
    /\ group_results = <<>>
    /\ gidx = 0

Init ==
    /\ args \in [pull : BOOLEAN, push : BOOLEAN, poptag : BOOLEAN, active : BOOLEAN]
    /\ file \in InputFiles
    /\ file_writes = 0
    /\ host_tags \in [Hosts -> HostTagLists]
    /\ host_active \in InitialActive
    \* without --active no query reads host_active
    /\ ~args.active => \A h \in Hosts : host_active[h]
    /\ remote_groups \in InitialGroups
    /\ pc = "main"
    /\ exc = ""
    /\ NoLocals
    /\ calls = <<>>
    /\ faults = 0
    /\ run = 1
    /\ start_tags = host_tags
    /\ start_groups = remote_groups
    /\ after_first = <<>>
    /\ first = <<>>

----------------------------------------------------------------------------
(* __main__ *)

\* test_creds halting on a lost connection only.
after_creds_any_status(o) ==
    IF o # "conn"
    THEN (IF args.pull THEN "poll_vectra_tags" ELSE "process_tag_file")
    ELSE "exit1"

\* After test_creds: on with the run when the status is 200 or 201 ("ok"),
\* sys.exit(1) on any other status and on a ConnectionError.
after_creds(o) ==
    IF o = "ok"
    THEN (IF args.pull THEN "poll_vectra_tags" ELSE "process_tag_file")
    ELSE "exit1"

\* test_creds, the first statement of both branches of __main__.
TestCreds ==
    /\ pc = "main"
    /\ args.pull \/ args.push
    /\ \E o \in Outcomes :
        /\ Issue(Call("test_creds", 0, cognito_url \o api, <<>>, o, <<>>))
        /\ pc' = after_creds(o)
    /\ UNCHANGED <<args, file, file_writes, remote, exc, locals, history>>

\* Neither --pull nor --push: the usage text, and nothing else.
Usage ==
    /\ pc = "main"
    /\ ~args.pull /\ ~args.push
    /\ pc' = "done"
    /\ UNCHANGED <<args, file, file_writes, remote, exc, locals, calls, faults, history>>

\* --pull: poll_vectra_tags, then gen_tag_file.
PollTags ==
    /\ pc = "poll_vectra_tags"
    /\ \E o \in Outcomes :
        LET q == IF args.active THEN "host.state:\"active\" AND host.tags:*"
                 ELSE "host.tags:*"
            u == cognito_url \o api \o "search/hosts/?page_size=" \o page_size
                     \o "&field=tags" \o "&query_string=" \o q
        IN /\ Issue(Call("poll_vectra_tags", 0, u, <<>>, o, poll_vectra_tags(args.active)))
           /\ IF o = "ok"
              THEN /\ file' = gen_tag_file(poll_vectra_tags(args.active))
                   /\ file_writes' = file_writes + 1
                   /\ pc' = "done"
                   /\ exc' = exc
              ELSE /\ Crash(IF o = "err" THEN "KeyError" ELSE "ConnectionError")
                   /\ UNCHANGED <<file, file_writes>>
    /\ UNCHANGED <<args, remote, locals, history>>

\* --push: process_tag_file, then the first entry of process_hosts.
ProcessTagFile ==
    /\ pc = "process_tag_file"
    /\ LET r == process_tag_file(file)
       IN IF r.ok
          THEN /\ group_dict' = r.group_tag
               /\ idx' = IF r.group_tag = <<>> THEN 0 ELSE 1
               /\ pc' = IF r.group_tag = <<>> THEN "done" ELSE "poll_vectra_hosts"
               /\ exc' = exc
          ELSE /\ Crash("ValueError")
               /\ UNCHANGED <<group_dict, idx>>
    /\ UNCHANGED <<args, file, file_writes, remote, url, tag_list, ids, hidx, tags,
                   group_results, gidx, calls, faults, history>>

----------------------------------------------------------------------------
(* process_hosts, remove_tags, add_host_to_group *)

\* The end of add_host_to_group: the next entry of group_dict, or the end
\* of the run.
NextEntry ==
    IF idx < Len(group_dict)
    THEN idx' = idx + 1 /\ pc' = "poll_vectra_hosts"
    ELSE idx' = idx /\ pc' = "done"

\* A createGroup request that leaves the members out.
create_body_empty(group, host_ids) ==
    [name |-> group, description |-> "Created by script", type |-> "host",
     members |-> <<>>]

\* The body of a createGroup request.
create_body(group, host_ids) ==
    [name |-> group, description |-> "Created by script", type |-> "host",
     members |-> host_ids]

\* remove_tags called whatever --poptag says.
after_poll_always(found) ==
    IF found # <<>> THEN "get_tags" ELSE "group_check"

\* After poll_vectra_hosts: remove_tags with --poptag, where its loop has
\* a host to turn to, add_host_to_group otherwise.
after_poll(found) ==
    IF args.poptag /\ found # <<>> THEN "get_tags" ELSE "group_check"

\* The query of the entry, poll_vectra_hosts, and the choice between
\* remove_tags and add_host_to_group.
PollHosts ==
    /\ pc = "poll_vectra_hosts"
    /\ LET tag == group_dict[idx].tags
           u == tagged_host_url(tag, args.active)
           found == find_host_ids(tag, args.active)
       IN /\ url' = u
          /\ tag_list' = build_tag_list(tag)
          /\ \E o \in Outcomes :
              /\ Issue(Call("poll_vectra_hosts", 0, u, <<>>, o, found))
              /\ IF o = "ok"
                 THEN /\ ids' = found
                      /\ pc' = after_poll(found)
                      /\ hidx' = IF after_poll(found) = "get_tags" THEN 1 ELSE hidx
                      /\ exc' = exc
                 ELSE /\ Crash(IF o = "err" THEN "KeyError" ELSE "ConnectionError")
                      /\ UNCHANGED <<ids, hidx>>
    /\ UNCHANGED <<args, file, file_writes, remote, group_dict, idx, tags,
                   group_results, gidx, history>>

\* remove_tags: the read of the tags of hostid_list[hidx].
GetTags ==
    /\ pc = "get_tags"
    /\ LET hostid == ids[hidx]
           urlq == cognito_url \o vectra_tag_uri \o str(hostid) \o "?fields=tags"
       IN \E o \in Outcomes :
           /\ Issue(Call("get_tags", hostid, urlq, <<>>, o, host_tags[hostid]))
           /\ IF o = "ok"
              THEN tags' = host_tags[hostid] /\ pc' = "patch_tags" /\ exc' = exc
              ELSE /\ Crash(IF o = "err" THEN "KeyError" ELSE "ConnectionError")
                   /\ tags' = tags
    /\ UNCHANGED <<args, file, file_writes, remote, group_dict, idx, url, tag_list,
                   ids, hidx, group_results, gidx, history>>

\* remove_tags: the removal and the write of the tags of hostid_list[hidx];
\* the response is not looked at.
PatchTags ==
    /\ pc = "patch_tags"
    /\ LET hostid == ids[hidx]
           urlp == cognito_url \o vectra_tag_uri \o str(hostid)
           left == stripped_tags(tags, tag_list)
       IN \E o \in Outcomes :
           /\ Issue(Call("patch_tags", hostid, urlp, [tags |-> left], o, <<>>))
           /\ tags' = left
           /\ host_tags' = IF o = "ok" THEN [host_tags EXCEPT ![hostid] = left]
                           ELSE host_tags
           /\ IF o = "conn"
              THEN Crash("ConnectionError") /\ hidx' = hidx
              ELSE /\ exc' = exc
                   /\ IF hidx < Len(ids)
                      THEN hidx' = hidx + 1 /\ pc' = "get_tags"
                      ELSE hidx' = hidx /\ pc' = "group_check"
    /\ UNCHANGED <<args, file, file_writes, host_active, remote_groups, group_dict,
                   idx, url, tag_list, ids, group_results, gidx, history>>

\* add_host_to_group: the name search.  An error response is no list of
\* groups, and the loop over it raises.
GroupCheck ==
    /\ pc = "group_check"
    /\ LET group == group_dict[idx].group
           u == cognito_url \o api \o "groups/?name=" \o group
           found == find_groups(group)
       IN \E o \in Outcomes :
           /\ Issue(Call("group_check", 0, u, <<>>, o, found))
           /\ IF o = "ok"
              THEN /\ group_results' = found
                   /\ IF found = <<>>
                      THEN gidx' = gidx /\ pc' = "create_group"
                      ELSE gidx' = 1 /\ pc' = "group_loop"
                   /\ exc' = exc
              ELSE /\ Crash(IF o = "err" THEN "TypeError" ELSE "ConnectionError")
                   /\ UNCHANGED <<group_results, gidx>>
    /\ UNCHANGED <<args, file, file_writes, remote, group_dict, idx, url, tag_list,
                   ids, hidx, tags, history>>

\* add_host_to_group, no group returned: the POST; the response is not
\* looked at.
CreateGroup ==
    /\ pc = "create_group"
    /\ LET group == group_dict[idx].group
           body == create_body(group, ids)
       IN \E o \in Outcomes :
           /\ Issue(Call("create_group", 0, cognito_url \o api \o "groups/", body, o, <<>>))
           /\ remote_groups' = IF o = "ok"
                               THEN Append(remote_groups, Group(group, ids))
                               ELSE remote_groups
           /\ IF o = "conn"
              THEN Crash("ConnectionError") /\ idx' = idx
              ELSE exc' = exc /\ NextEntry
    /\ UNCHANGED <<args, file, file_writes, host_tags, host_active, group_dict, url,
                   tag_list, ids, hidx, tags, group_results, gidx, history>>

\* Any group the search returned taken for the group of the entry.
is_exact_any(item, group) == NameMatches(group, item.name)

\* item['name'] == group
is_exact(item, group) == item.name = group

\* add_host_to_group, some group returned: one turn of the loop over
\* group_results, a PATCH of an item of the very name, a POST for any other.
GroupLoop ==
    /\ pc = "group_loop"
    /\ LET group == group_dict[idx].group
           item == group_results[gidx]
           exact == is_exact(item, group)
           merged == host_id_list(item.members, ids)
           c(o) == IF exact
                   THEN Call("update_group", item.id,
                             cognito_url \o api \o "groups/" \o str(item.id),
                             [members |-> merged], o, <<>>)
                   ELSE Call("create_group", 0, cognito_url \o api \o "groups/",
                             create_body(group, ids), o, <<>>)
       IN \E o \in Outcomes :
           /\ Issue(c(o))
           /\ remote_groups' =
                 IF o # "ok" THEN remote_groups
                 ELSE IF exact
                      THEN [remote_groups EXCEPT ![item.id].members = merged]
                      ELSE Append(remote_groups, Group(group, ids))
           /\ IF o = "conn"
              THEN Crash("ConnectionError") /\ UNCHANGED <<idx, gidx>>
              ELSE /\ exc' = exc
                   /\ IF gidx < Len(group_results)
                      THEN gidx' = gidx + 1 /\ pc' = pc /\ idx' = idx
                      ELSE gidx' = gidx /\ NextEntry
    /\ UNCHANGED <<args, file, file_writes, host_tags, host_active, group_dict, url,
                   tag_list, ids, hidx, tags, group_results, history>>

----------------------------------------------------------------------------
(* The next run *)

Ended == pc \in {"done", "exit1", "crashed"}

\* The program is started again: a new process, the remote directory as the
\* last run left it.
NextRun ==
    /\ Ended
    /\ run < MaxRuns
    /\ run' = run + 1
    /\ after_first' = IF run = 1 THEN remote_groups ELSE after_first
    /\ start_tags' = host_tags
    /\ start_groups' = remote_groups
    /\ pc' = "main"
    /\ exc' = ""
    /\ group_dict' = <<>>
    /\ idx' = 0
    /\ url' = ""
    /\ tag_list' = <<>>
    /\ ids' = <<>>
    /\ hidx' = 0
    /\ tags' = <<>>
    /\ group_results' = <<>>
    /\ gidx' = 0
    /\ calls' = <<>>
    /\ file_writes' = 0
    /\ UNCHANGED <<remote, faults>>

\* The program is started again with the same command line.
Rerun ==
    /\ NextRun
    /\ UNCHANGED <<args, file, first>>

Next ==
    \/ TestCreds
    \/ Usage
    \/ PollTags
    \/ ProcessTagFile
    \/ PollHosts
    \/ GetTags
    \/ PatchTags
    \/ GroupCheck
    \/ CreateGroup
    \/ GroupLoop
    \/ Rerun

Spec == Init /\ [][Next]_vars

TypeOK ==
    /\ pc \in {"main", "poll_vectra_tags", "process_tag_file", "poll_vectra_hosts",
               "get_tags", "patch_tags", "group_check", "create_group",
               "group_loop", "done", "exit1", "crashed"}
    /\ run \in 1..MaxRuns
    /\ faults \in 0..MaxFaults
    /\ \A h \in Hosts : NoDup(host_tags[h])

----------------------------------------------------------------------------
(* The mapping file, written and read *)

\* Step 2 of the text a pull run ends with: the script is run again with
\* --push, over the file the pull run wrote.
RerunPush ==
    /\ NextRun
    /\ pc = "done"
    /\ args.pull
    /\ args' = [args EXCEPT !.pull = FALSE, !.push = TRUE]
    /\ UNCHANGED <<file, first>>

\* Tag lists of hosts, some of tags that hold '#', ',' or '|'.
CodecTagLists ==
    { <<>>, <<"a">>, <<"b", "a">>, <<"a,b">>, <<"#x">>, <<"x|y">> }

\* Mapping files as an editor may leave them.
CodecFiles ==
    InputFiles \cup
    { <<>>,
      <<Line(<<"a", "|", "G">>), Line(<<>>), Line(<<"b", "|", "H">>)>>,
      <<Line(<<" ", " ">>), Line(<<"b", "|", "H">>)>>,
      <<Line(<<" ", "#", "b", "|", "H">>), Line(<<"a", "|", "G">>)>>,
      <<Line(<<"a", ",", "b", "|", "G">>), Line(<<"c", "|", "H">>),
        Line(<<"b", "|", "G">>)>>,
      <<Line(<<"a", "|", "G">>), Line(<<"#", "b">>), Line(<<"b", "G">>)>>,
      <<Line(<<"|", "G">>)>>,
      <<Line(<<"a", "|", "G">>), <<"b", "|", "H">>>> }

CodecInit ==
    /\ args \in {a \in [pull : BOOLEAN, push : BOOLEAN, poptag : {FALSE},
                         active : BOOLEAN] : a.pull # a.push}
    /\ file \in CodecFiles
    /\ file_writes = 0
    /\ host_tags \in [Hosts -> CodecTagLists]
    /\ host_active \in InitialActive
    /\ ~args.active => \A h \in Hosts : host_active[h]
    \* a push run does not get to the hosts here
    /\ args.push => \A h \in Hosts : host_tags[h] = <<>>
    /\ remote_groups = <<>>
    /\ pc = "main"
    /\ exc = ""
    /\ NoLocals
    /\ calls = <<>>
    /\ faults = 0
    /\ run = 1
    /\ start_tags = host_tags
    /\ start_groups = remote_groups
    /\ after_first = <<>>
    /\ first = <<>>

CodecNext ==
    \/ TestCreds
    \/ PollTags
    \/ RerunPush
    \/ ProcessTagFile

\* A pull run and the push run after it, or a push run, up to the point
\* where the mapping file has been read.
CodecSpec == CodecInit /\ [][CodecNext]_vars

----------------------------------------------------------------------------
(* Push runs over a directory with one or two fuzzy matches *)

PushFiles ==
    { <<Line(<<"a", "|", "G">>)>>,
      <<Line(<<"a", "|", "G">>), Line(<<"c", ",", "b", ",", "a", "|", "H">>)>>,
      <<Line(<<"a", ",", "b", "|", "G">>)>> }

PushGroups ==
    InitialGroups \cup { <<Group("Gx", <<MaxHosts>>), Group("xG", <<1>>)>> }

\* A push run, with or without --poptag; what it meets is recorded.
PushInit ==
    /\ args \in [pull : {FALSE}, push : {TRUE}, poptag : BOOLEAN, active : {FALSE}]
    /\ file \in PushFiles
    /\ file_writes = 0
    /\ host_tags \in [Hosts -> HostTagLists]
    /\ host_active = [h \in Hosts |-> TRUE]
    /\ remote_groups \in PushGroups
    /\ pc = "main"
    /\ exc = ""
    /\ NoLocals
    /\ calls = <<>>
    /\ faults = 0
    /\ run = 1
    /\ start_tags = host_tags
    /\ start_groups = remote_groups
    /\ after_first = <<>>
    /\ first = [tags |-> host_tags, groups |-> remote_groups, stopped |-> ""]

\* The program is started again with the same command line; how the run
\* before it stopped is recorded.
Recover ==
    /\ NextRun
    /\ first' = [first EXCEPT !.stopped = pc]
    /\ UNCHANGED <<args, file>>

PushNext ==
    \/ TestCreds
    \/ ProcessTagFile
    \/ PollHosts
    \/ GetTags
    \/ PatchTags
    \/ GroupCheck
    \/ CreateGroup
    \/ GroupLoop
    \/ Recover

PushSpec == PushInit /\ [][PushNext]_vars

----------------------------------------------------------------------------
(* Push runs one after another *)

\* The program is started again with --push, over any mapping file, with or
\* without --poptag.
RerunAny ==
    /\ NextRun
    /\ args' \in [pull : {FALSE}, push : {TRUE}, poptag : BOOLEAN, active : {FALSE}]
    /\ file' \in PushFiles
    /\ first' = first

GrowNext ==
    \/ TestCreds
    \/ ProcessTagFile
    \/ PollHosts
    \/ GetTags
    \/ PatchTags
    \/ GroupCheck
    \/ CreateGroup
    \/ GroupLoop
    \/ RerunAny

\* The first of the runs: hosts with the tag 'a' or none.
GrowInit ==
    /\ PushInit
    /\ host_tags \in [Hosts -> {<<>>, <<"a">>}]

GrowSpec == GrowInit /\ [][GrowNext]_vars

----------------------------------------------------------------------------
(* What the claims speak of *)

PushRun == args.push /\ ~args.pull

Last(s) == s[Len(s)]

\* The calls of the run that belong to entry e of the mapping.
CallsOf(e) == SelectSeq(calls, LAMBDA c : c.entry = e)

Ops(cs, ops) == SelectSeq(cs, LAMBDA c : c.op \in ops)

NoFailure == \A i \in DOMAIN calls : calls[i].outcome = "ok"

Mutating == {"create_group", "update_group", "patch_tags"}

\* Entry e has been processed to its end.
Finished(e) == e < idx \/ (e = idx /\ pc = "done")

\* Host h is a member of a group of this very name.
MemberOf(h, name) ==
    \E i \in DOMAIN remote_groups :
        remote_groups[i].name = name /\ h \in Range(remote_groups[i].members)

----------------------------------------------------------------------------
(* C1 *)

\* C1, as claimed: a second push run, with no failure and no change in
\* between, leaves the groups and their members as the first run left them.
C1_MergeIdempotent ==
    (PushRun /\ run = 2 /\ pc = "done" /\ faults = 0) => remote_groups = after_first

----------------------------------------------------------------------------
(* C2 *)

\* C2, as claimed: at the end of a push run without a remote failure, every
\* host that carried one of an entry's tags at the start of the run (and was
\* active, with --active) is a member of a group of the entry's name.
C2_OrSemantics ==
    (PushRun /\ pc = "done" /\ NoFailure) =>
        \A e \in DOMAIN group_dict : \A h \in Hosts :
            (/\ Range(start_tags[h]) \cap Range(group_dict[e].tags) # {}
             /\ args.active => host_active[h])
            => MemberOf(h, group_dict[e].group)

----------------------------------------------------------------------------
(* C3 *)

\* The answers of the entry's host search and name search.
Resolved(e) == Ops(CallsOf(e), {"poll_vectra_hosts"})[1].result
Searched(e) == Ops(CallsOf(e), {"group_check"})[1].result

\* C3: every updateGroupMembers call goes to a group of the entry's very
\* name that the name search returned, and its member list is, as a set,
\* the members the search returned for that group together with the hosts
\* the tag query resolved, no id twice.
C3_GroupMerge ==
    \A e \in DOMAIN group_dict :
        LET ups == Ops(CallsOf(e), {"update_group"})
        IN \A i \in DOMAIN ups :
            \E k \in DOMAIN Searched(e) :
                LET item == Searched(e)[k]
                IN /\ item.id = ups[i].id
                   /\ item.name = group_dict[e].group
                   /\ Range(ups[i].body.members) =
                          Range(item.members) \cup Range(Resolved(e))
                   /\ NoDup(ups[i].body.members)

\* An update has merged members {1,2} with resolved hosts {2,3}.
C3_Witness ==
    \E e \in DOMAIN group_dict :
        \E i \in DOMAIN CallsOf(e) :
            /\ CallsOf(e)[i].op = "update_group"
            /\ CallsOf(e)[i].outcome = "ok"
            /\ Range(Resolved(e)) = {2, 3}
            /\ \E k \in DOMAIN Searched(e) :
                  /\ Searched(e)[k].id = CallsOf(e)[i].id
                  /\ Range(Searched(e)[k].members) = {1, 2}
            /\ Range(CallsOf(e)[i].body.members) = {1, 2, 3}

----------------------------------------------------------------------------
(* C4 *)

\* The name search of entry e has returned no group.
NoneFound(e) ==
    LET s == Ops(CallsOf(e), {"group_check"})
    IN s # <<>> /\ s[1].outcome = "ok" /\ s[1].result = <<>>

\* C4: when the name search returns no group, the entry issues one
\* createGroup call, with the entry's name and the resolved hosts, and no
\* updateGroupMembers call.
C4_GroupCreation ==
    \A e \in DOMAIN group_dict :
        NoneFound(e) =>
            LET creates == Ops(CallsOf(e), {"create_group"})
            IN /\ Ops(CallsOf(e), {"update_group"}) = <<>>
               /\ Len(creates) <= 1
               /\ Finished(e) => Len(creates) = 1
               /\ \A i \in DOMAIN creates :
                    /\ creates[i].body.name = group_dict[e].group
                    /\ creates[i].body.members = Resolved(e)

\* A run has created a group of an entry that resolved hosts, and a group
\* of an entry that resolved none.
C4_Witness ==
    /\ pc = "done"
    /\ \E e \in DOMAIN group_dict :
          NoneFound(e) /\ Resolved(e) = <<>> /\ Len(Ops(CallsOf(e), {"create_group"})) = 1
    /\ \E e \in DOMAIN group_dict :
          NoneFound(e) /\ Resolved(e) # <<>> /\ Len(Ops(CallsOf(e), {"create_group"})) = 1

----------------------------------------------------------------------------
(* C5 *)

\* The list l without the tags of the set R, the order kept.
Without(l, R) == SelectSeq(l, LAMBDA t : t \notin R)

\* remove_tags has gone through the hosts of entry e.
Stripped(e) == Ops(CallsOf(e), {"group_check"}) # <<>>

\* C5: each write of a host's tags follows the read of that host's tags and
\* carries the tags read less the entry's tags; no host but a resolved one
\* is written, none twice, and each is written once remove_tags is through;
\* an absent tag ends nothing: the run ends in an exception only where a
\* remote call failed or the mapping file did not parse.
C5_TagRemoval ==
    /\ \A i \in DOMAIN calls :
          calls[i].op = "patch_tags" =>
             /\ i > 1
             /\ calls[i - 1].op = "get_tags"
             /\ calls[i - 1].id = calls[i].id
             /\ calls[i].body.tags =
                   Without(calls[i - 1].result,
                           Range(group_dict[calls[i].entry].tags))
    /\ \A e \in DOMAIN group_dict :
          LET writes == Ops(CallsOf(e), {"patch_tags"})
          IN /\ \A i, j \in DOMAIN writes : writes[i].id = writes[j].id => i = j
             /\ \A i \in DOMAIN writes : writes[i].id \in Range(Resolved(e))
             /\ (args.poptag /\ Stripped(e)) =>
                   \A h \in Range(Resolved(e)) :
                       \E i \in DOMAIN writes : writes[i].id = h
    /\ pc = "crashed" =>
          \/ exc = "ValueError" /\ idx = 0
          \/ calls # <<>> /\ Last(calls).outcome # "ok"

\* An entry has had a host written whose tags held a tag to remove and a
\* tag to keep, and an entry has had a host written that lacked the first
\* of its tags and carried a later one.
C5_Witness ==
    /\ \E i \in DOMAIN calls :
          /\ calls[i].op = "patch_tags"
          /\ calls[i].body.tags # <<>>
          /\ calls[i].body.tags # calls[i - 1].result
    /\ \E i \in DOMAIN calls :
          /\ calls[i].op = "patch_tags"
          /\ group_dict[calls[i].entry].tags[1] \notin Range(calls[i - 1].result)
          /\ calls[i].body.tags # calls[i - 1].result
    /\ pc = "done"

----------------------------------------------------------------------------
(* C6 *)

Quoted(t) == "\"" \o t \o "\""

\* The tags, quoted, with " OR " between them.
RECURSIVE JoinOr(_)
JoinOr(ts) ==
    IF Len(ts) = 1 THEN Quoted(ts[1])
    ELSE Quoted(Head(ts)) \o " OR " \o JoinOr(Tail(ts))

\* The query the specification asks for.
ReferenceQuery(ts, active) ==
    (IF active THEN "host.state:\"active\" AND " ELSE "")
        \o (IF Len(ts) = 1 THEN "host.tags:" \o Quoted(ts[1])
            ELSE "(host.tags:" \o JoinOr(ts) \o ")")

\* C6: the query of every host search is the reference query of the entry's
\* tag list and of --active, and the tag list that remove_tags works with is
\* the entry's tag list.
C6_QueryConstruction ==
    /\ \A i \in DOMAIN calls :
          calls[i].op = "poll_vectra_hosts" =>
              calls[i].url =
                  "https://vectra.local/api/v2/search/hosts/?page_size=5000&field=id&query_string="
                      \o ReferenceQuery(group_dict[calls[i].entry].tags, args.active)
    /\ pc \in {"get_tags", "patch_tags"} => tag_list = group_dict[idx].tags

\* With --active, remove_tags is at work on an entry of three tags that
\* follows an entry of one tag.
C6_Witness ==
    /\ args.active
    /\ pc = "patch_tags"
    /\ idx = 2
    /\ Len(group_dict[1].tags) = 1
    /\ Len(group_dict[2].tags) = 3

----------------------------------------------------------------------------
(* C7 *)

Count(s, x) == Cardinality({i \in DOMAIN s : s[i] = x})

\* A line that is no comment and does not hold one '|'.
MalformedLine(l) == ~comment_match(strip(l)) /\ Count(strip(l), "|") # 1

\* C7: a push run over a mapping file with a malformed line issues no
\* mutating call, takes up no entry, and ends, if it gets to read the file,
\* in the ValueError of the split.
C7_ParseBeforeMutation ==
    (PushRun /\ \E i \in DOMAIN file : MalformedLine(file[i])) =>
        /\ \A i \in DOMAIN calls : calls[i].op \notin Mutating
        /\ idx = 0
        /\ pc \in {"main", "process_tag_file", "exit1", "crashed"}
        /\ pc = "crashed" => exc = "ValueError"

\* The run has ended in the ValueError of a malformed line that follows a
\* well-formed one.
C7_Witness ==
    /\ PushRun
    /\ pc = "crashed"
    /\ exc = "ValueError"
    /\ Len(file) = 2
    /\ ~MalformedLine(file[1]) /\ ~comment_match(strip(file[1]))
    /\ MalformedLine(file[2])

----------------------------------------------------------------------------
(* C8 *)

\* C8: the first remote call of a run is the credential check; when it
\* fails the run has exited with 1, has issued no other call and has not
\* written the mapping file; the file is written only after it succeeded.
C8_CredentialGate ==
    /\ calls # <<>> => calls[1].op = "test_creds"
    /\ file_writes > 0 => (calls # <<>> /\ calls[1].outcome = "ok")
    /\ (calls # <<>> /\ calls[1].outcome # "ok") =>
          /\ Len(calls) = 1
          /\ pc = "exit1"
          /\ file_writes = 0
          /\ idx = 0

\* A push run has exited on an error status of the credential check.
C8_Witness ==
    /\ PushRun
    /\ pc = "exit1"
    /\ calls[1].outcome = "err"

----------------------------------------------------------------------------
(* C9 *)

\* C9, as claimed: no remote call of an entry follows a failed remote call
\* of that entry.
C9_FailFast ==
    \A i, j \in DOMAIN calls :
        (i < j /\ calls[i].entry >= 1 /\ calls[i].entry = calls[j].entry)
            => calls[i].outcome = "ok"

----------------------------------------------------------------------------
(* C10 *)

\* C10: a step changes a host's tags only in a push run with --poptag, only
\* for a host the entry's query resolved, and only by taking tags of the
\* entry's tag list out of the host's list.
C10_TagsReadOnly ==
    [][\A h \in Hosts :
          host_tags'[h] # host_tags[h] =>
              LET gone == Range(host_tags[h]) \ Range(host_tags'[h])
              IN /\ PushRun
                 /\ args.poptag
                 /\ ids = Resolved(idx)
                 /\ h \in Range(ids)
                 /\ gone \subseteq Range(group_dict[idx].tags)
                 /\ host_tags'[h] = Without(host_tags[h], gone)]_vars

\* With --active, a run has stripped a tag from a host and has ended with
\* the inactive host, which carries the tag too, as it was.
C10_Witness ==
    /\ pc = "done"
    /\ args.active
    /\ \E h \in Hosts : host_tags[h] # start_tags[h]
    /\ \E h \in Hosts :
          /\ ~host_active[h]
          /\ host_tags[h] = start_tags[h]
          /\ \E e \in DOMAIN group_dict :
                Range(host_tags[h]) \cap Range(group_dict[e].tags) # {}

----------------------------------------------------------------------------
(* C11 *)

\* The tags a pull run discovers.
Discovered ==
    UNION {Range(host_tags[h]) : h \in {k \in Hosts : args.active => host_active[k]}}

\* The push run has read the mapping file, or has failed to.
FileRead == PushRun /\ pc \in {"poll_vectra_hosts", "done", "crashed"}

\* The read has ended in the ValueError of a line that does not unpack.
ParseError == pc = "crashed" /\ exc = "ValueError"

\* C11, as claimed: the push run that follows a pull run reads, from the
\* file the pull run wrote, the mapping that sends each discovered tag t to
\* the list [t], and no other key.
C11_RoundTrip ==
    (run = 2 /\ FileRead) =>
        /\ ~ParseError
        /\ Range(group_dict) = {[group |-> t, tags |-> <<t>>] : t \in Discovered}
        /\ Len(group_dict) = Cardinality(Discovered)

----------------------------------------------------------------------------
(* C12 *)

Blank(l) == strip(l) = <<>>

Comment(l) == comment_match(strip(l))

\* The lines of the file that are neither comments nor blank.
DataLines == {i \in DOMAIN file : ~Comment(file[i]) /\ ~Blank(file[i])}

\* The group and the tags of a data line with one '|'.
GroupOf(l) == Str(split(strip(l), "|")[2])
TagsOf(l) ==
    LET ts == split(split(strip(l), "|")[1], ",")
    IN [k \in DOMAIN ts |-> Str(ts[k])]

\* The mapping the claim describes: each group of a data line, with the
\* tags of the last data line that names it.
ClaimedMapping ==
    {[group |-> GroupOf(file[i]), tags |-> TagsOf(file[i])] :
        i \in {k \in DataLines :
                 \A j \in DataLines : GroupOf(file[j]) = GroupOf(file[k]) => j <= k}}

\* C12, as claimed: the file is read without an error exactly when every
\* line that is neither a comment nor blank holds one '|', and the mapping
\* read is then the claimed one, a group once.
C12_FileRead ==
    FileRead =>
        /\ ~ParseError <=> \A i \in DataLines : Count(file[i], "|") = 1
        /\ ~ParseError =>
              /\ Range(group_dict) = ClaimedMapping
              /\ \A i, j \in DOMAIN group_dict :
                    group_dict[i].group = group_dict[j].group => i = j

----------------------------------------------------------------------------
(* C13 *)

\* The name search of entry e has been answered.
SearchDone(e) ==
    LET s == Ops(CallsOf(e), {"group_check"})
    IN s # <<>> /\ s[1].outcome = "ok"

\* The groups of the answer that have the very name of the entry.
ExactItems(e) ==
    {k \in DOMAIN Searched(e) : Searched(e)[k].name = group_dict[e].group}

\* C13, as claimed: when one group of the answer has the very name of the
\* entry, the entry issues one updateGroupMembers call, on that group, and
\* no createGroup call.
C13_ExactMergeOnly ==
    \A e \in DOMAIN group_dict :
        (SearchDone(e) /\ Cardinality(ExactItems(e)) = 1) =>
            LET ups == Ops(CallsOf(e), {"update_group"})
            IN /\ Ops(CallsOf(e), {"create_group"}) = <<>>
               /\ Len(ups) <= 1
               /\ \A i \in DOMAIN ups :
                     \E k \in ExactItems(e) : Searched(e)[k].id = ups[i].id
               /\ Finished(e) => Len(ups) = 1

----------------------------------------------------------------------------
(* C14 *)

\* Entry e is the last one whose add_host_to_group has begun.
LastSearched(e) ==
    LET s == Ops(calls, {"group_check"})
    IN s # <<>> /\ Last(s).entry = e

\* C14: when the answer of the name search holds k >= 1 groups, none of the
\* very name, the entry issues createGroup calls only, each with the entry's
\* name and the resolved hosts, k of them once it is through; the groups of
\* the answer are as the answer gave them; and the entry ends in an
\* exception only where a remote call failed.
C14_FuzzyOnly ==
    \A e \in DOMAIN group_dict :
        (SearchDone(e) /\ Searched(e) # <<>> /\ ExactItems(e) = {}) =>
            LET creates == Ops(CallsOf(e), {"create_group"})
            IN /\ Ops(CallsOf(e), {"update_group"}) = <<>>
               /\ Len(creates) <= Len(Searched(e))
               /\ Finished(e) => Len(creates) = Len(Searched(e))
               /\ \A i \in DOMAIN creates :
                     /\ creates[i].body.name = group_dict[e].group
                     /\ creates[i].body.members = Resolved(e)
               /\ LastSearched(e) =>
                     \A k \in DOMAIN Searched(e) :
                         /\ remote_groups[Searched(e)[k].id].name = Searched(e)[k].name
                         /\ remote_groups[Searched(e)[k].id].members =
                                Searched(e)[k].members
               /\ (e = idx /\ pc = "crashed") => Last(calls).outcome # "ok"

\* A run without a failure has ended after an entry that resolved hosts and
\* whose name search returned two groups of other names.
C14_Witness ==
    /\ pc = "done"
    /\ NoFailure
    /\ \E e \in DOMAIN group_dict :
          /\ Len(Searched(e)) = 2
          /\ ExactItems(e) = {}
          /\ Resolved(e) # <<>>
          /\ Len(Ops(CallsOf(e), {"create_group"})) = 2

----------------------------------------------------------------------------
(* C15 *)

GroupWrites(e) == Ops(CallsOf(e), {"create_group", "update_group"})

\* The entry has had a host's tags changed.
TagChanged(e) ==
    \E i \in DOMAIN calls :
        /\ calls[i].entry = e
        /\ calls[i].op = "patch_tags"
        /\ calls[i].outcome = "ok"
        /\ calls[i].body.tags # calls[i - 1].result

\* Fully applied, in the words of the claim: the group write issued and,
\* with --poptag, no resolved host left with a tag of the entry.
FullyApplied(e) ==
    /\ GroupWrites(e) # <<>>
    /\ args.poptag =>
          \A h \in Range(Resolved(e)) :
              Range(host_tags[h]) \cap Range(group_dict[e].tags) = {}

Unprocessed(e) == GroupWrites(e) = <<>> /\ ~TagChanged(e)

\* C15, as claimed: when a push run has stopped, every entry is fully
\* applied or entirely unprocessed.
C15_CrashAtomic ==
    (PushRun /\ Ended) =>
        \A e \in DOMAIN group_dict : FullyApplied(e) \/ Unprocessed(e)

\* All the calls of the entry have been issued: the host search, with
\* --poptag a write of the tags of every resolved host, the name search, and
\* a group write for every group of its answer, or one if it has none.
AllIssued(e) ==
    /\ Ops(CallsOf(e), {"poll_vectra_hosts"}) # <<>>
    /\ SearchDone(e)
    /\ args.poptag =>
          \A h \in Range(Resolved(e)) :
              \E i \in DOMAIN CallsOf(e) :
                  CallsOf(e)[i].op = "patch_tags" /\ CallsOf(e)[i].id = h
    /\ Len(GroupWrites(e)) =
          (IF Searched(e) = <<>> THEN 1 ELSE Len(Searched(e)))

\* What does hold at any point of a push run, and so wherever it stops:
\* every entry before the one in progress has had all its calls issued and
\* every entry after it has had none; within an entry the tag writes come
\* before the name search and the group writes, which is how the entry in
\* progress loses its tags with no group write issued.
EntriesInOrder ==
    PushRun =>
        /\ \A e \in DOMAIN group_dict :
              /\ e < idx => AllIssued(e)
              /\ (e = idx /\ pc = "done") => AllIssued(e)
              /\ e > idx => CallsOf(e) = <<>>
        /\ \A i, j \in DOMAIN calls :
              (/\ calls[i].entry = calls[j].entry
               /\ calls[i].op = "patch_tags"
               /\ calls[j].op \in {"group_check", "create_group", "update_group"})
              => i < j

----------------------------------------------------------------------------
(* C16 *)

\* One entry of the mapping carried out without a failure on a directory
\* st of host tags and groups: the hosts found, their tags stripped with
\* --poptag, the groups of the very name merged, and a group created for
\* every other group of the answer, or one when the answer is empty.
EntryApplied(st, entry, poptag) ==
    LET found == ListOfSet({h \in Hosts :
                              Range(st.tags[h]) \cap Range(entry.tags) # {}})
        left == [h \in Hosts |->
                   IF poptag /\ h \in Range(found)
                   THEN stripped_tags(st.tags[h], build_tag_list(entry.tags))
                   ELSE st.tags[h]]
        hits == {i \in DOMAIN st.groups : NameMatches(entry.group, st.groups[i].name)}
        same == {i \in hits : st.groups[i].name = entry.group}
        merged == [i \in DOMAIN st.groups |->
                     IF i \in same
                     THEN Group(entry.group, host_id_list(st.groups[i].members, found))
                     ELSE st.groups[i]]
        posts == IF hits = {} THEN 1 ELSE Cardinality(hits \ same)
    IN [tags |-> left,
        groups |-> merged \o [k \in 1..posts |-> Group(entry.group, found)]]

\* An uninterrupted push run over the mapping d, from entry i on.
RECURSIVE FullRun(_, _, _, _)
FullRun(st, d, i, poptag) ==
    IF i > Len(d) THEN st
    ELSE FullRun(EntryApplied(st, d[i], poptag), d, i + 1, poptag)

\* Which host is a member of a group of which name.
Memberships(groups) ==
    {<<groups[i].name, h>> : i \in DOMAIN groups, h \in Hosts} \cap
    UNION {{groups[i].name} \X Range(groups[i].members) : i \in DOMAIN groups}

Uninterrupted == FullRun(first, group_dict, 1, args.poptag)

\* A first run without a failure ends as FullRun says.
FullRunIsTheRun ==
    (run = 1 /\ pc = "done" /\ NoFailure) =>
        /\ remote_groups = Uninterrupted.groups
        /\ host_tags = Uninterrupted.tags

\* C16, as claimed: a push run that crashed, followed by a run over the same
\* mapping that meets no failure, ends with the group memberships of one
\* uninterrupted run from the directory the first run met.
C16_RerunRecovery ==
    (PushRun /\ run = 2 /\ first.stopped = "crashed" /\ pc = "done" /\ NoFailure) =>
        Memberships(remote_groups) = Memberships(Uninterrupted.groups)

\* The same of runs without --poptag.
RecoveryWithoutPoptag == ~args.poptag => C16_RerunRecovery

----------------------------------------------------------------------------
(* C17 *)

\* C17: no step of any sequence of push runs removes a group or takes a
\* member out of one: every group is there after the step, under its name,
\* with every member it had.
C17_MembershipGrows ==
    [][\A i \in DOMAIN remote_groups :
          /\ i \in DOMAIN remote_groups'
          /\ remote_groups'[i].name = remote_groups[i].name
          /\ Range(remote_groups[i].members) \subseteq Range(remote_groups'[i].members)
      ]_vars

\* After a first run that wrote to the groups, a second run has just updated
\* a group that had members before the first, and the group holds them all
\* and a host more.
C17_Witness ==
    /\ run = 2
    /\ after_first # first.groups
    /\ calls # <<>>
    /\ Last(calls).op = "update_group"
    /\ Last(calls).outcome = "ok"
    /\ Last(calls).id \in DOMAIN first.groups
    /\ LET before == Range(first.groups[Last(calls).id].members)
           now == Range(remote_groups[Last(calls).id].members)
       IN before # {} /\ before \subseteq now /\ before # now

====
